---------------------------- MODULE Spec2Model ----------------------------
(***************************************************************************)
(* InvoiceGenerator (B-I.py): the per-item tax computation, the items      *)
(* table, the two grand-total call sites and the scratch file used to      *)
(* embed the signature image.                                              *)
(*                                                                         *)
(* Python values are tagged records: [type |-> "str", val |-> <<chars>>],  *)
(* [type |-> "int", val |-> n], [type |-> "None"] and                      *)
(* [type |-> "Decimal", sign, int, exp], the last with the fields of       *)
(* decimal.Decimal (_sign, _int, _exp); _int is a sequence of decimal      *)
(* digits, most significant first, because the coefficients met here have  *)
(* up to 60 digits.                                                        *)
(***************************************************************************)
EXTENDS Integers, Sequences, FiniteSets, TLC

(***************************************************************************)
(* Bounds of the model.                                                    *)
(***************************************************************************)
MaxItems == 2
NumInvocations == 2

(***************************************************************************)
(* decimal.getcontext().prec, the default context the program never        *)
(* changes; rounding is the default ROUND_HALF_EVEN.                       *)
(***************************************************************************)
Prec == 28

None == [type |-> "None"]
PyStr(s) == [type |-> "str", val |-> s]
PyInt(n) == [type |-> "int", val |-> n]

Max(a, b) == IF a >= b THEN a ELSE b
Min(a, b) == IF a <= b THEN a ELSE b

(***************************************************************************)
(* Arithmetic on coefficients (Python ints of arbitrary size), as digit    *)
(* sequences without leading zeros; zero is <<0>>.                         *)
(***************************************************************************)
Zeros(n) == [k \in 1..n |-> 0]

\* str(int(...)): no leading zeros
StripZeros(ds) ==
    LET nz == {k \in 1..Len(ds) : ds[k] # 0}
    IN  IF nz = {} THEN <<0>>
        ELSE SubSeq(ds, CHOOSE k \in nz : \A j \in nz : k <= j, Len(ds))

IsZero(ds) == StripZeros(ds) = <<0>>

PadLeft(ds, n) == Zeros(n - Len(ds)) \o ds

RECURSIVE IntDigits(_)
IntDigits(n) == IF n < 10 THEN <<n>> ELSE IntDigits(n \div 10) \o <<n % 10>>

\* -1, 0, 1 as a < b, a = b, a > b for stripped digit sequences
NatCmp(a, b) ==
    IF Len(a) < Len(b) THEN -1
    ELSE IF Len(a) > Len(b) THEN 1
    ELSE LET diff == {k \in 1..Len(a) : a[k] # b[k]}
             d    == CHOOSE k \in diff : \A j \in diff : k <= j
         IN  IF diff = {} THEN 0 ELSE IF a[d] < b[d] THEN -1 ELSE 1

\* The digits of a number given as column values cols[k] * 10^(n-k), each
\* column >= 0: the carries run from the last column to the first.  (The
\* tests s < 0 and Len(acc) < 0 never hold; they make TLC evaluate s and
\* acc at every step instead of building a chain of unevaluated terms.)
RECURSIVE CarryRec(_, _, _, _)
CarryRec(cols, k, carry, acc) ==
    IF k = 0 THEN (IF carry = 0 THEN acc ELSE IntDigits(carry) \o acc)
    ELSE LET s == cols[k] + carry
         IN  IF s < 0 \/ Len(acc) < 0 THEN <<>>
             ELSE CarryRec(cols, k - 1, s \div 10, <<s % 10>> \o acc)

Carry(cols) == StripZeros(CarryRec(cols, Len(cols), 0, <<>>))

NatAdd(a, b) ==
    LET n  == Max(Len(a), Len(b))
        pa == PadLeft(a, n)
        pb == PadLeft(b, n)
    IN  Carry([k \in 1..n |-> pa[k] + pb[k]])

RECURSIVE BorrowRec(_, _, _, _, _)
BorrowRec(a, b, k, borrow, acc) ==
    IF k = 0 THEN acc
    ELSE LET s == a[k] - b[k] - borrow
         IN  IF Len(acc) < 0 THEN <<>>
             ELSE IF s < 0 THEN BorrowRec(a, b, k - 1, 1, <<s + 10>> \o acc)
             ELSE BorrowRec(a, b, k - 1, 0, <<s>> \o acc)

\* a - b for a >= b
NatSub(a, b) ==
    StripZeros(BorrowRec(a, PadLeft(b, Len(a)), Len(a), 0, <<>>))

\* the sum of a[i] * b[j] over i + j = k + 1, from index i on
RECURSIVE ColRec(_, _, _, _, _)
ColRec(a, b, k, i, acc) ==
    IF i > Len(a) \/ i > k \/ acc < 0 THEN acc
    ELSE ColRec(a, b, k, i + 1, acc + a[i] * b[k + 1 - i])

NatMul(a, b) ==
    Carry([k \in 1..(Len(a) + Len(b) - 1) |->
              ColRec(a, b, k, Max(1, k + 1 - Len(b)), 0)])

RECURSIVE PowRec(_, _, _)
PowRec(a, k, acc) ==
    IF k = 0 \/ Len(acc) < 0 THEN acc ELSE PowRec(a, k - 1, NatMul(acc, a))

NatPow(a, k) == PowRec(a, k, <<1>>)

Abs(n) == IF n < 0 THEN -n ELSE n


(***************************************************************************)
(* decimal.Decimal.                                                        *)
(***************************************************************************)
Dec(sign, int, exp) == [type |-> "Decimal", sign |-> sign, int |-> int, exp |-> exp]

\* raised by the Decimal constructor on a string that is no number
InvalidOperation == [type |-> "raise", exc |-> "InvalidOperation"]

DigitChars == {"0", "1", "2", "3", "4", "5", "6", "7", "8", "9"}
DigitVal(c) ==
    CASE c = "0" -> 0 [] c = "1" -> 1 [] c = "2" -> 2 [] c = "3" -> 3
      [] c = "4" -> 4 [] c = "5" -> 5 [] c = "6" -> 6 [] c = "7" -> 7
      [] c = "8" -> 8 [] c = "9" -> 9

\* Decimal(<str>): [sign] digits [. digits]; the coefficient is
\* str(int(intpart + fracpart)), the exponent -len(fracpart).  Nothing is
\* rounded.  (Exponent notation, NaN and Infinity are not among the inputs.)
DecFromStr(s) ==
    LET neg   == Len(s) > 0 /\ s[1] = "-"
        body  == IF Len(s) > 0 /\ s[1] \in {"-", "+"} THEN Tail(s) ELSE s
        dots  == {k \in 1..Len(body) : body[k] = "."}
        dot   == IF dots = {} THEN Len(body) + 1
                 ELSE CHOOSE k \in dots : \A j \in dots : k <= j
        intp  == SubSeq(body, 1, dot - 1)
        fracp == SubSeq(body, dot + 1, Len(body))
        all   == intp \o fracp
    IN  IF Len(all) = 0 \/ \E k \in 1..Len(all) : all[k] \notin DigitChars
        THEN InvalidOperation
        ELSE Dec(IF neg THEN 1 ELSE 0,
                 StripZeros([k \in 1..Len(all) |-> DigitVal(all[k])]),
                 -Len(fracp))

\* Decimal(<int>)
DecFromInt(n) == Dec(IF n < 0 THEN 1 ELSE 0, IntDigits(Abs(n)), 0)

\* Decimal(<float>), Decimal.from_float: the float is n / 2^k exactly
\* (float.as_integer_ratio), the result n * 5^k with exponent -k.
DecFromFloat(f) == Dec(0, NatMul(f.n, NatPow(<<5>>, f.k)), -f.k)

\* Decimal(v) for the argument types the program passes
DecimalOf(v) ==
    CASE v.type = "str"     -> DecFromStr(v.val)
      [] v.type = "int"     -> DecFromInt(v.val)
      [] v.type = "float"   -> DecFromFloat(v)
      [] v.type = "Decimal" -> v

\* the digits kept when a coefficient is cut to its first `keep` digits
\* (0 <= keep < Len(ds)) under ROUND_HALF_EVEN
RoundHalfEven(ds, keep) ==
    LET head == IF keep = 0 THEN <<0>> ELSE SubSeq(ds, 1, keep)
        rest == SubSeq(ds, keep + 1, Len(ds))
        tail0 == \A k \in 2..Len(rest) : rest[k] = 0
        up   == \/ rest[1] > 5
                \/ rest[1] = 5 /\ ~tail0
                \/ rest[1] = 5 /\ tail0 /\ head[Len(head)] % 2 = 1
    IN  IF up THEN NatAdd(head, <<1>>) ELSE head

\* Decimal._fix: round to the context precision
Fix(d) ==
    IF Len(d.int) <= Prec THEN d
    ELSE LET drop == Len(d.int) - Prec
             r    == RoundHalfEven(d.int, Prec)
         IN  IF Len(r) > Prec
             THEN Dec(d.sign, SubSeq(r, 1, Prec), d.exp + drop + 1)
             ELSE Dec(d.sign, r, d.exp + drop)

\* Decimal._rescale(exp, ROUND_HALF_EVEN)
Rescale(d, exp) ==
    IF IsZero(d.int) THEN Dec(d.sign, <<0>>, exp)
    ELSE IF d.exp >= exp THEN Dec(d.sign, d.int \o Zeros(d.exp - exp), exp)
    ELSE LET digits == Len(d.int) + d.exp - exp
             src    == IF digits < 0 THEN <<1>> ELSE d.int
             keep   == Max(digits, 0)
         IN  Dec(d.sign, StripZeros(RoundHalfEven(src, keep)), exp)

\* the exact product, before the context rounds it
MulExact(a, b) ==
    Dec((a.sign + b.sign) % 2, NatMul(a.int, b.int), a.exp + b.exp)

\* Decimal.__mul__
DecMul(a, b) == Fix(MulExact(a, b))

\* decimal._normalize: both operands on the smaller exponent; an operand
\* too small to reach the result's precision is replaced by a 1 just
\* below it
Normalize(a, b) ==
    LET tmp   == IF a.exp < b.exp THEN b ELSE a
        other == IF a.exp < b.exp THEN a ELSE b
        exp   == tmp.exp + Min(-1, Len(tmp.int) - Prec - 2)
        oth   == IF Len(other.int) + other.exp - 1 < exp
                 THEN Dec(other.sign, <<1>>, exp) ELSE other
        big   == Dec(tmp.sign, tmp.int \o Zeros(tmp.exp - oth.exp), oth.exp)
    IN  IF a.exp < b.exp THEN <<oth, big>> ELSE <<big, oth>>

\* the aligned sum, before the context rounds it
AddAligned(op1, op2) ==
    IF op1.sign # op2.sign
    THEN LET c == NatCmp(op1.int, op2.int)
         IN  IF c = 0 THEN Dec(0, <<0>>, op1.exp)
             ELSE IF c < 0 THEN Dec(op2.sign, NatSub(op2.int, op1.int), op1.exp)
             ELSE Dec(op1.sign, NatSub(op1.int, op2.int), op1.exp)
    ELSE Dec(op1.sign, NatAdd(op1.int, op2.int), op1.exp)

\* Decimal.__add__
DecAdd(a, b) ==
    LET exp == Min(a.exp, b.exp)
    IN  IF IsZero(a.int) /\ IsZero(b.int)
        THEN Fix(Dec(Min(a.sign, b.sign), <<0>>, exp))
        ELSE IF IsZero(a.int)
        THEN Fix(Rescale(b, Max(exp, b.exp - Prec - 1)))
        ELSE IF IsZero(b.int)
        THEN Fix(Rescale(a, Max(exp, a.exp - Prec - 1)))
        ELSE LET ops == Normalize(a, b)
             IN  Fix(AddAligned(ops[1], ops[2]))

\* Decimal.copy_negate and Decimal.__sub__
DecNeg(a) == Dec(1 - a.sign, a.int, a.exp)
DecSub(a, b) == DecAdd(a, DecNeg(b))

\* format(d, ".2f"): the value at two decimal places
Format2f(d) == Rescale(d, -2)

(***************************************************************************)
(* The inputs of the model.                                                *)
(***************************************************************************)
\* the float literals 0.09 and 0.18 as float.as_integer_ratio gives them:
\* 3242591731706757 / 2^55 and 3242591731706757 / 2^54
Float009 ==
    [type |-> "float", n |-> <<3,2,4,2,5,9,1,7,3,1,7,0,6,7,5,7>>, k |-> 55]
Float018 ==
    [type |-> "float", n |-> <<3,2,4,2,5,9,1,7,3,1,7,0,6,7,5,7>>, k |-> 54]

\* the line items a caller may pass: the two of the sample invoice, one
\* with a quantity above 1 and a discount, one whose discount exceeds the
\* price, one negative value in each input field, and a price that is no
\* number
ItemInputs ==
    { [description |-> "shirt",    unit_price |-> PyStr(<<"5","3","8",".","1","0">>),
       quantity |-> PyInt(1),  discount |-> PyInt(0)],
      [description |-> "shipping", unit_price |-> PyStr(<<"3","0",".","9","6">>),
       quantity |-> PyInt(1),  discount |-> PyInt(0)],
      [description |-> "bulk",     unit_price |-> PyStr(<<"5","3","8",".","1","0">>),
       quantity |-> PyInt(3),  discount |-> PyStr(<<"1","0",".","5","0">>)],
      [description |-> "voucher",  unit_price |-> PyStr(<<"3","0",".","9","6">>),
       quantity |-> PyInt(1),  discount |-> PyInt(50)],
      [description |-> "negprice", unit_price |-> PyStr(<<"-","5",".","0","0">>),
       quantity |-> PyInt(1),  discount |-> PyInt(0)],
      [description |-> "negqty",   unit_price |-> PyStr(<<"3","0",".","9","6">>),
       quantity |-> PyInt(-1), discount |-> PyInt(0)],
      [description |-> "negdisc",  unit_price |-> PyStr(<<"3","0",".","9","6">>),
       quantity |-> PyInt(1),  discount |-> PyInt(-3)],
      [description |-> "nonnum",   unit_price |-> PyStr(<<"a","b","c">>),
       quantity |-> PyInt(1),  discount |-> PyInt(0)] }

\* an item as the caller builds it: the derived fields are None
NewItem(in) ==
    [description |-> in.description, unit_price |-> in.unit_price,
     quantity |-> in.quantity, discount |-> in.discount,
     net_amount |-> None, tax_rate |-> None, tax_type |-> None,
     tax_amount |-> None, total_amount |-> None,
     tax_amount_sgst |-> None, total_amount_sgst |-> None]

ItemLists ==
    UNION {[1..n -> {NewItem(in) : in \in ItemInputs}] : n \in 0..MaxItems}

\* billing_details / shipping_details: a dict that may lack the 'state' or
\* the 'city' key
BillingInputs ==
    { [state |-> "KARNATAKA", city |-> "BENGALURU"],
      [city |-> "BENGALURU"] }
ShippingInputs ==
    { [state |-> "KARNATAKA", city |-> "BENGALURU"],
      [state |-> "MAHARASHTRA", city |-> "BENGALURU"],
      [state |-> "KARNATAKA", city |-> "MYSURU"],
      [state |-> "KARNATAKA"],
      [state |-> "MAHARASHTRA"] }

Invocations == 1..NumInvocations
ScratchFile == "temp.pdf"
\* signature image paths; no file exists at the last one
SignaturePaths == {"signatureA.png", "signatureB.png", "missing.png"}
\* file contents: no such file, an image, or a saved canvas
Absent == [kind |-> "absent"]
Image(name) == [kind |-> "png", image |-> name]
Canvas(p, img) == [kind |-> "pdf", writer |-> p, image |-> img.image]

VARIABLES
    billing_details,    \* self.billing_details
    shipping_details,   \* self.shipping_details
    item_details,       \* self.item_details, the caller's list, changed in place
    caller_items,       \* the list as the caller passed it
    pc,                 \* where generate_invoice stands
    i,                  \* the index of the for loop of _compute_item_details
    exc,                \* the exception that ended generate_invoice, or None
    table,              \* the data rows given to Table, or None
    total_row,          \* the total of _create_total_row and its text, or None
    words_total,        \* the total of _create_amount_in_words, or None
    files,              \* the working directory: file name -> content
    signature_image_path, \* of each concurrent invocation
    spc,                \* where each invocation stands in _insert_signature_image
    image_data,         \* what each invocation read from the scratch file
    sexc,               \* the exception that ended each invocation, or None
    rates               \* the Decimals of the float literals 0.09 and 0.18

invoice_vars == <<billing_details, shipping_details, item_details, caller_items,
                  pc, i, exc, table, total_row, words_total>>
scratch_vars == <<files, signature_image_path, spc, image_data, sexc>>
vars == <<invoice_vars, scratch_vars, rates>>

(***************************************************************************)
(* _compute_item_details                                                   *)
(***************************************************************************)
Raised(type, where) == [type |-> type, in |-> where]

\* NetAmount without the discount
NetAmountNoDiscount(item) ==
    LET p == DecimalOf(item.unit_price)
        q == DecimalOf(item.quantity)
        d == DecimalOf(item.discount)
    IN  IF p.type = "raise" THEN p
        ELSE IF q.type = "raise" THEN q
        ELSE IF d.type = "raise" THEN d
        ELSE DecSub(DecMul(p, q), DecimalOf(PyInt(0)))

\* Decimal(unit_price) * Decimal(quantity) - Decimal(discount), or the
\* InvalidOperation a constructor raises
NetAmount(item) ==
    LET p == DecimalOf(item.unit_price)
        q == DecimalOf(item.quantity)
        d == DecimalOf(item.discount)
    IN  IF p.type = "raise" THEN p
        ELSE IF q.type = "raise" THEN q
        ELSE IF d.type = "raise" THEN d
        ELSE DecSub(DecMul(p, q), d)

\* the condition of the if statement: "True", "False", or "KeyError" when
\* a subscript it evaluates has no such key.  `and` evaluates the city
\* comparison only when the states are equal.
SameJurisdiction(billing, shipping) ==
    IF "state" \notin DOMAIN billing \/ "state" \notin DOMAIN shipping
    THEN "KeyError"
    ELSE IF billing.state # shipping.state THEN "False"
    ELSE IF "city" \notin DOMAIN billing \/ "city" \notin DOMAIN shipping
    THEN "KeyError"
    ELSE IF billing.city = shipping.city THEN "True" ELSE "False"

\* Decimal(0.09) and Decimal(0.18): every iteration evaluates them anew, to
\* the same values; `rates` holds them, converted once per behaviour
Decimal009 == rates.cgst
Decimal018 == rates.igst

\* SplitRegime with both tax components in total_amount
SplitRegimeBothComponents(net) ==
    LET tax  == DecMul(net, Decimal009)
        sgst == DecMul(net, Decimal009)
    IN  [tax_type          |-> PyStr(<<"C", "G", "S", "T">>),
         tax_rate          |-> Decimal009,
         tax_amount        |-> tax,
         total_amount      |-> DecAdd(DecAdd(net, tax), sgst),
         tax_amount_sgst   |-> sgst,
         total_amount_sgst |-> DecAdd(net, sgst)]

\* the fields the CGST branch assigns
SplitRegime(net) ==
    LET tax  == DecMul(net, Decimal009)
        sgst == DecMul(net, Decimal009)
    IN  [tax_type          |-> PyStr(<<"C", "G", "S", "T">>),
         tax_rate          |-> Decimal009,
         tax_amount        |-> tax,
         total_amount      |-> DecAdd(net, tax),
         tax_amount_sgst   |-> sgst,
         total_amount_sgst |-> DecAdd(net, sgst)]

\* the fields the IGST branch assigns
SingleRegime(net) ==
    LET tax == DecMul(net, Decimal018)
    IN  [tax_type          |-> PyStr(<<"I", "G", "S", "T">>),
         tax_rate          |-> Decimal018,
         tax_amount        |-> tax,
         total_amount      |-> DecAdd(net, tax),
         tax_amount_sgst   |-> DecimalOf(PyInt(0)),
         total_amount_sgst |-> DecimalOf(PyInt(0))]

WithFields(item, net, f) ==
    [item EXCEPT !.net_amount = net,
                 !.tax_type = f.tax_type, !.tax_rate = f.tax_rate,
                 !.tax_amount = f.tax_amount, !.total_amount = f.total_amount,
                 !.tax_amount_sgst = f.tax_amount_sgst,
                 !.total_amount_sgst = f.total_amount_sgst]

\* one iteration of the for loop: item i gets its derived fields, or the
\* iteration raises and leaves what it had assigned so far
ComputeItem ==
    /\ pc = "compute"
    /\ i <= Len(item_details)
    /\ LET item == item_details[i]
           net  == NetAmount(item)
           same == SameJurisdiction(billing_details, shipping_details)
       IN  IF net.type = "raise"
           THEN /\ exc' = Raised(net.exc, "_compute_item_details")
                /\ pc' = "raised"
                /\ UNCHANGED <<item_details, i>>
           ELSE IF same = "KeyError"
           THEN /\ item_details' = [item_details EXCEPT ![i].net_amount = net]
                /\ exc' = Raised("KeyError", "_compute_item_details")
                /\ pc' = "raised"
                /\ UNCHANGED i
           ELSE /\ item_details' =
                      [item_details EXCEPT ![i] =
                          WithFields(item, net,
                                     IF same = "True" THEN SplitRegime(net)
                                                      ELSE SingleRegime(net))]
                /\ i' = i + 1
                /\ UNCHANGED <<pc, exc>>
    /\ UNCHANGED <<billing_details, shipping_details, caller_items,
                   table, total_row, words_total, scratch_vars, rates>>

\* the loop is exhausted: _compute_item_details returns
ComputeReturn ==
    /\ pc = "compute"
    /\ i > Len(item_details)
    /\ pc' = "billing"
    /\ UNCHANGED <<billing_details, shipping_details, item_details, caller_items,
                   i, exc, table, total_row, words_total, scratch_vars, rates>>

(***************************************************************************)
(* The sections generate_invoice builds next, as far as they read the      *)
(* modelled state.                                                         *)
(***************************************************************************)
\* the f-string of the party block reads 'city' and 'state'
PartyKeysPresent(details) == {"city", "state"} \subseteq DOMAIN details

CreateBillingDetails ==
    /\ pc = "billing"
    /\ IF PartyKeysPresent(billing_details)
       THEN pc' = "shipping" /\ UNCHANGED exc
       ELSE pc' = "raised" /\ exc' = Raised("KeyError", "_create_billing_details")
    /\ UNCHANGED <<billing_details, shipping_details, item_details, caller_items,
                   i, table, total_row, words_total, scratch_vars, rates>>

CreateShippingDetails ==
    /\ pc = "shipping"
    /\ IF PartyKeysPresent(shipping_details)
       THEN pc' = "table" /\ UNCHANGED exc
       ELSE pc' = "raised" /\ exc' = Raised("KeyError", "_create_shipping_details")
    /\ UNCHANGED <<billing_details, shipping_details, item_details, caller_items,
                   i, table, total_row, words_total, scratch_vars, rates>>

\* TableRows over the list in reverse
TableRowsReversed(items) ==
    [index \in 1..Len(items) |->
        [si           |-> index,
         description  |-> items[Len(items) + 1 - index].description,
         unit_price   |-> items[Len(items) + 1 - index].unit_price,
         quantity     |-> items[Len(items) + 1 - index].quantity,
         net_amount   |-> items[Len(items) + 1 - index].net_amount,
         tax_rate     |-> items[Len(items) + 1 - index].tax_rate,
         tax_type     |-> items[Len(items) + 1 - index].tax_type,
         tax_amount   |-> items[Len(items) + 1 - index].tax_amount,
         total_amount |-> items[Len(items) + 1 - index].total_amount]]

\* the data rows after the header row: enumerate(self.item_details)
TableRows(items) ==
    [index \in 1..Len(items) |->
        [si           |-> index,
         description  |-> items[index].description,
         unit_price   |-> items[index].unit_price,
         quantity     |-> items[index].quantity,
         net_amount   |-> items[index].net_amount,
         tax_rate     |-> items[index].tax_rate,
         tax_type     |-> items[index].tax_type,
         tax_amount   |-> items[index].tax_amount,
         total_amount |-> items[index].total_amount]]

CreateItemDetailsTable ==
    /\ pc = "table"
    /\ table' = [type |-> "Table", data |-> TableRows(item_details)]
    /\ pc' = "total_row"
    /\ UNCHANGED <<billing_details, shipping_details, item_details, caller_items,
                   i, exc, total_row, words_total, scratch_vars, rates>>

\* int + Decimal and Decimal + Decimal
PyAdd(a, b) == DecAdd(DecimalOf(a), b)

\* the builtin sum over a list of Decimals: 0 + d1 + d2 + ...
RECURSIVE SumRec(_, _, _)
SumRec(ds, k, acc) ==
    IF k > Len(ds) \/ acc.type = "raise" THEN acc
    ELSE SumRec(ds, k + 1, PyAdd(acc, ds[k]))

PySum(ds) == SumRec(ds, 1, PyInt(0))

\* sum([Decimal(item['total_amount']) for item in self.item_details])
\* in _create_total_row
TotalRowSum(items) ==
    PySum([k \in 1..Len(items) |-> DecimalOf(items[k].total_amount)])

\* f"{total_amount:.2f}"
TotalText(total) == Format2f(DecimalOf(total))

CreateTotalRow ==
    /\ pc = "total_row"
    /\ total_row' = [type |-> "total_row",
                     total_amount |-> TotalRowSum(item_details),
                     text |-> TotalText(TotalRowSum(item_details))]
    /\ pc' = "amount_in_words"
    /\ UNCHANGED <<billing_details, shipping_details, item_details, caller_items,
                   i, exc, table, words_total, scratch_vars, rates>>

\* AmountInWordsSum over net_amount
AmountInWordsSumNet(items) ==
    PySum([k \in 1..Len(items) |-> DecimalOf(items[k].net_amount)])

\* the same sum in _create_amount_in_words
AmountInWordsSum(items) ==
    PySum([k \in 1..Len(items) |-> DecimalOf(items[k].total_amount)])

\* locale.format_string(f, val): only the conversions below count as
\* format specifiers; with any other, no value is passed on to f % (),
\* which raises TypeError (not enough arguments for format string)
LocaleConversions ==
    {"e", "E", "f", "F", "g", "G", "d", "i", "o", "u", "x", "X", "c", "r", "s", "%"}
FormatString(conversion) ==
    IF conversion \in LocaleConversions THEN "formatted" ELSE "TypeError"

\* the total is summed, then locale.format_string('%a', ...) raises
CreateAmountInWords ==
    /\ pc = "amount_in_words"
    /\ words_total' = AmountInWordsSum(item_details)
    /\ IF FormatString("a") = "TypeError"
       THEN pc' = "raised" /\ exc' = Raised("TypeError", "_create_amount_in_words")
       ELSE pc' = "reverse_charge" /\ UNCHANGED exc
    /\ UNCHANGED <<billing_details, shipping_details, item_details, caller_items,
                   i, table, total_row, scratch_vars, rates>>

(***************************************************************************)
(* _insert_signature_image, run by concurrent invocations in one working   *)
(* directory.  (generate_invoice itself never gets as far: the exception   *)
(* of _create_amount_in_words ends it.  The invocations here are callers   *)
(* of _create_signature.)                                                  *)
(***************************************************************************)
\* the name of the scratch file of invocation p
ScratchName(p) == ScratchFile

\* c.drawImage(self.signature_image_path, ...) opens the image
DrawImage(p) ==
    /\ spc[p] = "draw"
    /\ IF files[signature_image_path[p]] = Absent
       THEN /\ spc' = [spc EXCEPT ![p] = "raised"]
            /\ sexc' = [sexc EXCEPT ![p] = "OSError"]
       ELSE /\ spc' = [spc EXCEPT ![p] = "save"]
            /\ UNCHANGED sexc
    /\ UNCHANGED <<files, signature_image_path, image_data, invoice_vars, rates>>

\* c.save() writes the canvas, with the image on it, to the scratch file
Save(p) ==
    /\ spc[p] = "save"
    /\ files' = [files EXCEPT ![ScratchName(p)] =
                    Canvas(p, files[signature_image_path[p]])]
    /\ spc' = [spc EXCEPT ![p] = "read"]
    /\ UNCHANGED <<signature_image_path, image_data, sexc, invoice_vars, rates>>

\* with open('temp.pdf', 'rb') as f: image_data = f.read()
Read(p) ==
    /\ spc[p] = "read"
    /\ IF files[ScratchName(p)] = Absent
       THEN /\ spc' = [spc EXCEPT ![p] = "raised"]
            /\ sexc' = [sexc EXCEPT ![p] = "FileNotFoundError"]
            /\ UNCHANGED image_data
       ELSE /\ image_data' = [image_data EXCEPT ![p] = files[ScratchName(p)]]
            /\ spc' = [spc EXCEPT ![p] = "remove"]
            /\ UNCHANGED sexc
    /\ UNCHANGED <<files, signature_image_path, invoice_vars, rates>>

\* os.remove('temp.pdf')
Remove(p) ==
    /\ spc[p] = "remove"
    /\ IF files[ScratchName(p)] = Absent
       THEN /\ spc' = [spc EXCEPT ![p] = "raised"]
            /\ sexc' = [sexc EXCEPT ![p] = "FileNotFoundError"]
            /\ UNCHANGED files
       ELSE /\ files' = [files EXCEPT ![ScratchName(p)] = Absent]
            /\ spc' = [spc EXCEPT ![p] = "done"]
            /\ UNCHANGED sexc
    /\ UNCHANGED <<signature_image_path, image_data, invoice_vars, rates>>

(***************************************************************************)
(* The specifications.                                                     *)
(***************************************************************************)
\* no invocation has reached the signature block
ScratchIdle ==
    /\ files = [f \in SignaturePaths \cup {ScratchFile} |-> Absent]
    /\ signature_image_path = [p \in Invocations |-> "signatureA.png"]
    /\ spc = [p \in Invocations |-> "idle"]
    /\ image_data = [p \in Invocations |-> None]
    /\ sexc = [p \in Invocations |-> "None"]

InitRates ==
    rates = [cgst |-> DecimalOf(Float009), igst |-> DecimalOf(Float018)]

\* the state after InvoiceGenerator(...) and the call of generate_invoice
Init ==
    /\ InitRates
    /\ billing_details \in BillingInputs
    /\ shipping_details \in ShippingInputs
    /\ item_details \in ItemLists
    /\ caller_items = item_details
    /\ pc = "compute"
    /\ i = 1
    /\ exc = None
    /\ table = None
    /\ total_row = None
    /\ words_total = None
    /\ ScratchIdle

Next ==
    \/ ComputeItem
    \/ ComputeReturn
    \/ CreateBillingDetails
    \/ CreateShippingDetails
    \/ CreateItemDetailsTable
    \/ CreateTotalRow
    \/ CreateAmountInWords

Spec == Init /\ [][Next]_vars

\* concurrent invocations at the call of _insert_signature_image
InitScratch ==
    /\ InitRates
    /\ billing_details = [state |-> "KARNATAKA", city |-> "BENGALURU"]
    /\ shipping_details = [state |-> "KARNATAKA", city |-> "BENGALURU"]
    /\ item_details = <<>>
    /\ caller_items = <<>>
    /\ pc = "signature"
    /\ i = 1
    /\ exc = None
    /\ table = None
    /\ total_row = None
    /\ words_total = None
    /\ files = [f \in SignaturePaths \cup {ScratchFile} |->
                   IF f \in {"signatureA.png", "signatureB.png"} THEN Image(f)
                   ELSE Absent]
    /\ signature_image_path \in [Invocations -> SignaturePaths]
    /\ spc = [p \in Invocations |-> "draw"]
    /\ image_data = [p \in Invocations |-> None]
    /\ sexc = [p \in Invocations |-> "None"]

NextScratch ==
    \E p \in Invocations : DrawImage(p) \/ Save(p) \/ Read(p) \/ Remove(p)

SpecScratch == InitScratch /\ [][NextScratch]_vars

(***************************************************************************)
(* Exact arithmetic on Decimal values, for stating the properties: no      *)
(* rounding to the context precision.                                      *)
(***************************************************************************)
AlignTo(d, exp) == Dec(d.sign, StripZeros(d.int \o Zeros(d.exp - exp)), exp)

ExactAdd(a, b) ==
    AddAligned(AlignTo(a, Min(a.exp, b.exp)), AlignTo(b, Min(a.exp, b.exp)))

\* a and b are the same number
ValueEq(a, b) ==
    LET x == AlignTo(a, Min(a.exp, b.exp))
        y == AlignTo(b, Min(a.exp, b.exp))
    IN  x.int = y.int /\ (x.sign = y.sign \/ IsZero(x.int))

RECURSIVE ToInt(_)
ToInt(ds) ==
    IF Len(ds) = 0 THEN 0 ELSE 10 * ToInt(SubSeq(ds, 1, Len(ds) - 1)) + ds[Len(ds)]

RECURSIVE Pow10(_)
Pow10(n) == IF n = 0 THEN 1 ELSE 10 * Pow10(n - 1)

\* the value of d in hundredths, for d with at most two decimal places
Hundredths(d) ==
    (IF d.sign = 1 THEN -1 ELSE 1) * ToInt(d.int) * Pow10(d.exp + 2)

NineHundredths == DecFromStr(<<"0", ".", "0", "9">>)
EighteenHundredths == DecFromStr(<<"0", ".", "1", "8">>)

IsSet(v) == v.type # "None"
Items == 1..Len(item_details)
Same == SameJurisdiction(billing_details, shipping_details)

DerivedSet(item) ==
    /\ IsSet(item.net_amount) /\ IsSet(item.tax_type) /\ IsSet(item.tax_rate)
    /\ IsSet(item.tax_amount) /\ IsSet(item.total_amount)
DerivedUnset(item) ==
    /\ ~IsSet(item.net_amount) /\ ~IsSet(item.tax_type) /\ ~IsSet(item.tax_rate)
    /\ ~IsSet(item.tax_amount) /\ ~IsSet(item.total_amount)

IsCGST(item) == item.tax_type = PyStr(<<"C", "G", "S", "T">>)
IsIGST(item) == item.tax_type = PyStr(<<"I", "G", "S", "T">>)

(***************************************************************************)
(* C1: every item computed while billing and shipping have the same state  *)
(* and city is in the CGST regime, its tax_amount is exactly 0.09 times    *)
(* its net_amount and its total_amount exactly net_amount plus that (for   *)
(* 538.10: 48.429 and 586.529).                                            *)
(***************************************************************************)
C1_SplitTaxExact ==
    \A k \in Items :
        LET item == item_details[k]
        IN  Same = "True" /\ DerivedSet(item) =>
                /\ IsCGST(item)
                /\ ValueEq(item.tax_amount, MulExact(item.net_amount, NineHundredths))
                /\ ValueEq(item.total_amount,
                           ExactAdd(item.net_amount,
                                    MulExact(item.net_amount, NineHundredths)))

(***************************************************************************)
(* C2: every item computed while billing and shipping differ in state or   *)
(* city is in the IGST regime, its tax_amount is exactly 0.18 times its    *)
(* net_amount, its total_amount exactly net_amount plus that (for 538.10:  *)
(* 96.858 and 634.958), and tax_amount_sgst and total_amount_sgst are 0.   *)
(***************************************************************************)
C2_SingleTaxExact ==
    \A k \in Items :
        LET item == item_details[k]
        IN  Same = "False" /\ DerivedSet(item) =>
                /\ IsIGST(item)
                /\ ValueEq(item.tax_amount, MulExact(item.net_amount, EighteenHundredths))
                /\ ValueEq(item.total_amount,
                           ExactAdd(item.net_amount,
                                    MulExact(item.net_amount, EighteenHundredths)))
                /\ IsZero(item.tax_amount_sgst.int)
                /\ IsZero(item.total_amount_sgst.int)

(***************************************************************************)
(* C3: every item that has a net_amount has                                *)
(* net_amount = unit_price * quantity - discount, whatever the regime and  *)
(* the other items (here in hundredths, in integer arithmetic).            *)
(***************************************************************************)
C3_NetAmount ==
    \A k \in Items :
        LET item == item_details[k]
        IN  IsSet(item.net_amount) =>
                /\ item.net_amount.exp >= -2
                /\ Hundredths(item.net_amount) =
                       Hundredths(DecimalOf(item.unit_price)) * item.quantity.val
                         - Hundredths(DecimalOf(item.discount))

\* _compute_item_details has returned, with an item of quantity 3 and
\* discount 10.50 and one of quantity 1 and discount 0 among the computed
C3_Witness ==
    /\ pc = "billing"
    /\ \E k \in Items : /\ item_details[k].description = "bulk"
                        /\ IsSet(item_details[k].net_amount)
    /\ \E k \in Items : /\ item_details[k].description = "shirt"
                        /\ IsSet(item_details[k].net_amount)

\* 0 + total_amount of item 1 + ... + total_amount of item n
RECURSIVE SumOfTotalAmount(_, _)
SumOfTotalAmount(items, n) ==
    IF n = 0 THEN PyInt(0)
    ELSE PyAdd(SumOfTotalAmount(items, n - 1), items[n].total_amount)

C5_FailFast ==
    exc = Raised("KeyError", "_compute_item_details") =>
        \A k \in Items :
            /\ ~IsSet(item_details[k].net_amount)
            /\ ~IsSet(item_details[k].tax_amount)
            /\ ~IsSet(item_details[k].total_amount)

\* v is a number below zero
IsNegative(v) ==
    LET d == DecimalOf(v) IN d.type = "Decimal" /\ d.sign = 1 /\ ~IsZero(d.int)

HasNegativeInput(item) ==
    IsNegative(item.unit_price) \/ IsNegative(item.quantity) \/ IsNegative(item.discount)

(***************************************************************************)
(* C6: no item with a negative unit_price, quantity or discount has its    *)
(* derived fields computed and its row put in the items table.             *)
(***************************************************************************)
C6_NegativeRejected ==
    \A k \in Items :
        HasNegativeInput(caller_items[k]) =>
            ~(DerivedSet(item_details[k]) /\ IsSet(table))

(***************************************************************************)
(* C7: whenever no iteration is under way (the computation has returned    *)
(* or raised), every item has its derived fields all unset or all set.     *)
(***************************************************************************)
C7_AllOrNothing ==
    pc # "compute" =>
        \A k \in Items : DerivedUnset(item_details[k]) \/ DerivedSet(item_details[k])

C9_TableOrder ==
    /\ Len(item_details) = Len(caller_items)
    /\ \A k \in Items :
           /\ item_details[k].description = caller_items[k].description
           /\ item_details[k].unit_price = caller_items[k].unit_price
           /\ item_details[k].quantity = caller_items[k].quantity
           /\ item_details[k].discount = caller_items[k].discount
    /\ IsSet(table) =>
           /\ Len(table.data) = Len(caller_items)
           /\ \A k \in Items :
                  /\ table.data[k].si = k
                  /\ table.data[k].description = caller_items[k].description
                  /\ table.data[k].unit_price = caller_items[k].unit_price
                  /\ table.data[k].quantity = caller_items[k].quantity
                  /\ table.data[k].net_amount = item_details[k].net_amount
                  /\ table.data[k].total_amount = item_details[k].total_amount

\* the table is built from two different items
C9_Witness ==
    /\ IsSet(table)
    /\ Len(caller_items) = 2
    /\ caller_items[1].description # caller_items[2].description
    /\ caller_items[1].unit_price # caller_items[2].unit_price

\* 0 + (net_amount + tax_amount) of item 1 + ... of item n, each sum at the
\* context's precision
RECURSIVE SumOfNetPlusTax(_, _)
SumOfNetPlusTax(items, n) ==
    IF n = 0 THEN PyInt(0)
    ELSE PyAdd(SumOfNetPlusTax(items, n - 1),
               Fix(ExactAdd(items[n].net_amount, items[n].tax_amount)))

(***************************************************************************)
(* C10: for every item in the CGST regime, total_amount is net_amount      *)
(* plus tax_amount (the sum at the context's precision) and not that plus  *)
(* tax_amount_sgst, total_amount_sgst is net_amount plus tax_amount_sgst,  *)
(* and the two pairs are equal; the grand total of an invoice in the CGST  *)
(* regime is the sum over the items of net_amount plus tax_amount.         *)
(***************************************************************************)
C10_SplitTotals ==
    /\ \A k \in Items :
           LET item == item_details[k]
           IN  DerivedSet(item) /\ IsCGST(item) =>
                   /\ item.total_amount =
                          Fix(ExactAdd(item.net_amount, item.tax_amount))
                   /\ item.total_amount_sgst =
                          Fix(ExactAdd(item.net_amount, item.tax_amount_sgst))
                   /\ item.tax_amount = item.tax_amount_sgst
                   /\ item.total_amount = item.total_amount_sgst
                   /\ ~IsZero(item.tax_amount_sgst.int) =>
                          ~ValueEq(item.total_amount,
                                   ExactAdd(ExactAdd(item.net_amount, item.tax_amount),
                                            item.tax_amount_sgst))
    /\ IsSet(total_row) /\ Same = "True" =>
           total_row.total_amount = SumOfNetPlusTax(item_details, Len(item_details))

\* the totals row of an invoice of two different items in the CGST regime
C10_Witness ==
    /\ IsSet(total_row)
    /\ Same = "True"
    /\ Len(item_details) = 2
    /\ item_details[1].description # item_details[2].description
    /\ \A k \in Items : DerivedSet(item_details[k]) /\ IsCGST(item_details[k])
                        /\ ~IsZero(item_details[k].tax_amount_sgst.int)

=============================================================================
